---- MODULE Spec2Model ----
(***************************************************************************)
(* PiLightController: devices with a staging and a visible grid, the       *)
(* device manager's name map and layout, the frame buffers, and the three  *)
(* threads Trigger, FrameMaker and LightWrite of src/main.py.              *)
(*                                                                         *)
(* Python lists are modelled as functions on 0..n-1, a colour [r, g, b]    *)
(* as the tuple <<r, g, b>>, and an object reference as an index into the  *)
(* heap of the object that owns it.                                        *)
(***************************************************************************)
EXTENDS Integers, Sequences, FiniteSets, TLC

VARIABLES
    devices,          \* DeviceManager.devices: name -> device object
    layout,           \* DeviceManager._currentLayout: list of DevicePosition
    cf,               \* current_frame_buffer._buffer
    nf,               \* next_frame_buffer._buffer
    nfLock,           \* holder of next_frame_buffer._bufferLock
    bang,             \* the threading.Event shared by Trigger and FrameMaker
    rc,               \* RunningConfig
    fm_pc,            \* FrameMaker: position in its loop
    fm_frame,         \* FrameMaker: the frame it is about to install
    lw_pc,            \* LightWrite: position in its loop
    lw_current,       \* LightWrite: local current_frame
    lw_next,          \* LightWrite: local next_frame
    call,             \* history: the last call made on a device or the manager
    sets,             \* history: device set calls of LightWrite's cycle
    shown,            \* history: devices shown in LightWrite's cycle
    promoted,         \* history: cf.set was called in LightWrite's cycle
    raisesPending,    \* history: bang.set() calls made while FrameMaker waits
    servedRaises,     \* history: raisesPending when FrameMaker woke, until it clears
    lastInstalled,    \* history: argument of the last completed nf.set
    raisedInCycle,    \* history: bang.set() was called in this cycle after nf.set
    threads,          \* callers of the DeviceManager: position and arguments
    devicesLock,      \* holder of DeviceManager._devicesLock
    layoutLock        \* holder of DeviceManager._layoutLock

vars == <<devices, layout, cf, nf, nfLock, bang, rc, fm_pc, fm_frame, lw_pc,
          lw_current, lw_next, call, sets, shown, promoted, raisesPending,
          servedRaises, lastInstalled, raisedInCycle, threads, devicesLock,
          layoutLock>>

lockVars == <<threads, devicesLock, layoutLock>>

----------------------------------------------------------------------------
(* Bounds of the model *)

\* device and manager calls are tried with coordinates -MaxCoord..MaxCoord
MaxCoord == 2
\* add_location is tried with origins 0..MaxOrigin, in x and in y
MaxOrigin == 1
\* the layout holds at most MaxLayout positions
MaxLayout == 3
\* the history counter of bang.set() saturates here
MaxRaises == 2

\* the shapes a device is built with (unicorn.get_shape(), scaled down)
Shapes == {<<1, 1>>, <<2, 1>>, <<1, 2>>}
\* section names of config/devices.ini; LightWrite addresses "test"
Names == {"test", "hat"}

Black == <<0, 0, 0>>
Red == <<255, 0, 0>>
Colors == {Black, Red}

Coords == (0 - MaxCoord)..MaxCoord
Origins == 0..MaxOrigin

----------------------------------------------------------------------------
(* util.py and Python's list subscripts *)

make_color_grid(x, y, r, g, b) ==
    [i \in 0..(x - 1) |-> [j \in 0..(y - 1) |-> <<r, g, b>>]]

\* len(grid) and len(grid[0])
GridW(grid) == Cardinality(DOMAIN grid)
GridH(grid) == Cardinality(DOMAIN grid[0])

\* every grid of x columns and y rows
Grids(x, y) == [0..(x - 1) -> [0..(y - 1) -> Colors]]

\* lst[i] on a list of length n raises IndexError unless -n <= i < n
IndexOK(i, n) == (0 - n) <= i /\ i < n
\* a negative subscript counts from the end of the list
Index(i, n) == IF i < 0 THEN i + n ELSE i

----------------------------------------------------------------------------
(* DeviceObj: heap[lights] is self._lights, heap[showBuffer] is             *)
(* self._showBuffer; both are references to list objects.                  *)

DeviceObj_init(name, x, y) ==
    [name |-> name, sizeX |-> x, sizeY |-> y,
     heap |-> <<make_color_grid(x, y, 0, 0, 0), make_color_grid(x, y, 0, 0, 0)>>,
     lights |-> 1, showBuffer |-> 2]

Lights(d) == d.heap[d.lights]
ShowBuffer(d) == d.heap[d.showBuffer]

\* self._lights[x][y] / self._showBuffer[x][y] raises IndexError
DeviceObj_raises(d, x, y) ==
    ~(IndexOK(x, d.sizeX) /\ IndexOK(y, d.sizeY))

DeviceObj_get(d, x, y) ==
    LET cell == Lights(d)[Index(x, d.sizeX)][Index(y, d.sizeY)]
    IN  <<cell[1], cell[2], cell[3]>>

DeviceObj_get_size(d) == <<d.sizeX, d.sizeY>>

\* a set that writes the visible grid
DeviceSetLights(d, r, g, b, x, y) ==
    [d EXCEPT !.heap[d.lights][Index(x, d.sizeX)][Index(y, d.sizeY)] = <<r, g, b>>]

DeviceObj_set(d, r, g, b, x, y) ==
    [d EXCEPT !.heap[d.showBuffer][Index(x, d.sizeX)][Index(y, d.sizeY)] = <<r, g, b>>]

\* a show that exchanges the two grids
DeviceShowSwap(d) ==
    [d EXCEPT !.lights = d.showBuffer, !.showBuffer = d.lights]

DeviceObj_show(d) ==
    [d EXCEPT !.lights = d.showBuffer]

----------------------------------------------------------------------------
(* DevicePosition and DeviceManager *)

DevicePosition(name, x, y, w, h) ==
    [name |-> name, x |-> x, y |-> y, w |-> w, h |-> h]

\* the far corner itself, not the last position inside
LastPositionExclusive(p) == <<p.x + p.w, p.y + p.h>>

get_last_position(p) == <<p.x + p.w - 1, p.y + p.h - 1>>

is_inside(p, x, y) ==
    (p.x <= x /\ x < p.x + p.w) /\ (p.y <= y /\ y < p.y + p.h)

translate(p, x, y) == <<x - p.x, y - p.y>>

\* self.devices[name] raises KeyError
KeyError(devs, name) == name \notin DOMAIN devs

get_device_size(devs, name) == DeviceObj_get_size(devs[name])

\* the layout after add_location(name, x, y), which has not raised
add_location(devs, lay, name, x, y) ==
    LET size == get_device_size(devs, name)
    IN  Append(lay, DevicePosition(name, x, y, size[1], size[2]))

\* the name map after self.devices[d.name] = d
StoreDevice(devs, d) ==
    [n \in (DOMAIN devs) \cup {d.name} |-> IF n = d.name THEN d ELSE devs[n]]

\* add_device(d): the name map and the layout after it
add_device(devs, lay, d) ==
    LET stored == StoreDevice(devs, d)
    IN  [devices |-> stored, layout |-> add_location(stored, lay, d.name, 0, 0)]

RECURSIVE LayoutScan(_, _, _, _)
\* the for loop of get_layout_size from position k on
LayoutScan(lay, k, max_x, max_y) ==
    IF k > Len(lay) THEN <<max_x, max_y>>
    ELSE LET last == get_last_position(lay[k])
             mx == IF max_x < last[1] + 1 THEN last[1] + 1 ELSE max_x
             my == IF max_y < last[2] + 1 THEN last[2] + 1 ELSE max_y
         IN  LayoutScan(lay, k + 1, mx, my)

get_layout_size(lay) == LayoutScan(lay, 1, 0, 0)

----------------------------------------------------------------------------
(* FrameBuffer: the body run while _bufferLock is held *)

\* a set that copies the first column of b only
FrameBufferSetTorn(buffer, b) ==
    [i \in DOMAIN b |-> IF i = 0 \/ i \notin DOMAIN buffer THEN b[i] ELSE buffer[i]]

FrameBuffer_set(buffer, b) == b

FrameBuffer_get(buffer) == buffer

\* lightprograms is not part of the sources: get_next_frame(size_x, size_y)
\* returns some grid of exactly that size
get_next_frame(size_x, size_y) == Grids(size_x, size_y)

----------------------------------------------------------------------------
(* RunningConfig; trigger_timer_length is kept in tenths of a second *)

RunningConfig_init ==
    [mode |-> "cross", trigger_source |-> "timer", trigger_timer_length |-> 5]

\* a get_mode that returns the other string field
GetModeTriggerSource(c) == c.trigger_source

get_mode(c) == c.mode
get_trigger_source(c) == c.trigger_source
get_trigger_timer_length(c) == c.trigger_timer_length

set_mode(c, m) == [c EXCEPT !.mode = m]
\* the body of set_trigger_source assigns to self.mode
set_trigger_source(c, s) == [c EXCEPT !.mode = s]
set_trigger_timer_length(c, l) == [c EXCEPT !.trigger_timer_length = l]

----------------------------------------------------------------------------
(* The registry built by DeviceManager.__init__ from config/devices.ini,    *)
(* and the state of the threads before they are started.                   *)

NoCall ==
    [op |-> "none", prevOp |-> "none", name |-> "test", c |-> Black,
     x |-> 0, y |-> 0, err |-> FALSE, ret |-> Black]

\* the record of a call that follows the call recorded in prev
Called(prev, op, name, c, x, y, err, ret) ==
    [op |-> op, prevOp |-> prev.op, name |-> name, c |-> c,
     x |-> x, y |-> y, err |-> err, ret |-> ret]

EmptyRegistry == [devices |-> <<>>, layout |-> <<>>]

\* the threads that call the DeviceManager, and a thread that is in no call
Threads == {"t1", "t2"}
Idle ==
    [pc |-> "idle", op |-> "none", name |-> "test", x |-> 0, y |-> 0,
     size |-> <<0, 0>>]

RECURSIVE BuildRegistry(_, _, _)
\* the for loop over device_config.sections(): one device per section
BuildRegistry(config, k, reg) ==
    IF k > Len(config) THEN reg
    ELSE LET d == DeviceObj_init(config[k][1], config[k][2][1], config[k][2][2])
         IN  BuildRegistry(config, k + 1, add_device(reg.devices, reg.layout, d))

Device(n, w, h) == <<n, <<w, h>>>>

\* devices files: none, one or two sections, with and without a section
\* "test"; the shapes are among Shapes, and the last file makes a canvas of
\* 2 x 2 with a corner that no device covers
Configs ==
    { <<>>,
      <<Device("test", 1, 1)>>,
      <<Device("test", 2, 1)>>,
      <<Device("test", 1, 2)>>,
      <<Device("hat", 2, 1)>>,
      <<Device("test", 1, 1), Device("hat", 1, 1)>>,
      <<Device("hat", 2, 1), Device("test", 1, 1)>>,
      <<Device("test", 1, 2), Device("hat", 1, 2)>>,
      <<Device("test", 2, 1), Device("hat", 1, 2)>> }

\* the frame buffers, the event, the configuration and the three threads
\* as __main__ creates them for the registry reg
InitPipeline(reg) ==
    LET size == get_layout_size(reg.layout)
        blank == make_color_grid(size[1], size[2], 0, 0, 0)
    IN  /\ devices = reg.devices
        /\ layout = reg.layout
        /\ cf = blank
        /\ nf = blank
        /\ nfLock = "free"
        /\ bang = FALSE
        /\ rc = RunningConfig_init
        /\ fm_pc = "wait"
        /\ fm_frame = <<>>
        /\ lw_pc = "get_current"
        /\ lw_current = blank
        /\ lw_next = blank
        /\ call = NoCall
        /\ sets = <<>>
        /\ shown = {}
        /\ promoted = FALSE
        /\ raisesPending = 0
        /\ servedRaises = 0
        /\ lastInstalled = blank
        /\ raisedInCycle = FALSE
        /\ threads = [t \in Threads |-> Idle]
        /\ devicesLock = "free"
        /\ layoutLock = "free"

pipelineVars == <<cf, nf, nfLock, bang, rc, fm_pc, fm_frame, lw_pc, lw_current,
                  lw_next, sets, shown, promoted, raisesPending,
                  servedRaises, lastInstalled, raisedInCycle>>

----------------------------------------------------------------------------
(* SpecDevice: the calls set, get and show on one device, with every       *)
(* coordinate of Coords, in any order.                                     *)

TheDevice == devices["test"]

InitDevice ==
    \E s \in Shapes \cup {<<2, 2>>} :
        InitPipeline(add_device(<<>>, <<>>, DeviceObj_init("test", s[1], s[2])))

Dev_set(c, x, y) ==
    /\ IF DeviceObj_raises(TheDevice, x, y)
       THEN /\ call' = Called(call, "set", "test", c, x, y, TRUE, Black)
            /\ UNCHANGED devices
       ELSE /\ call' = Called(call, "set", "test", c, x, y, FALSE, Black)
            /\ devices' = [devices EXCEPT
                   !["test"] = DeviceObj_set(@, c[1], c[2], c[3], x, y)]
    /\ UNCHANGED <<layout, pipelineVars, lockVars>>

Dev_get(x, y) ==
    /\ IF DeviceObj_raises(TheDevice, x, y)
       THEN call' = Called(call, "get", "test", Black, x, y, TRUE, Black)
       ELSE call' = Called(call, "get", "test", Black, x, y, FALSE,
                           DeviceObj_get(TheDevice, x, y))
    /\ UNCHANGED <<devices, layout, pipelineVars, lockVars>>

Dev_show ==
    /\ devices' = [devices EXCEPT !["test"] = DeviceObj_show(@)]
    /\ call' = Called(call, "show", "test", Black, 0, 0, FALSE, Black)
    /\ UNCHANGED <<layout, pipelineVars, lockVars>>

NextDevice ==
    \/ \E c \in Colors, x \in Coords, y \in Coords : Dev_set(c, x, y)
    \/ \E x \in Coords, y \in Coords : Dev_get(x, y)
    \/ Dev_show

SpecDevice == InitDevice /\ [][NextDevice]_vars

\* (x, y) is inside the declared size of device d
InSize(d, x, y) == 0 <= x /\ x < d.sizeX /\ 0 <= y /\ y < d.sizeY

\* C3: a set changes only the staging grid: across every set call, also one
\* issued after a show, the visible grid that get reads stays what the most
\* recent show (or the construction) made it.
C3_SetLeavesVisibleGrid ==
    [][call'.op = "set" => Lights(TheDevice') = Lights(TheDevice)]_vars

\* C4: an in-range set(c, x, y) succeeds and stores c at (x, y) of the staging
\* grid and nothing else; a show that follows it makes get(x, y) return c and
\* get at every other coordinate return what the staging grid held there
\* (the colour last set there, or black).
C4_RoundTrip ==
    [][/\ (call'.op = "set" /\ InSize(TheDevice, call'.x, call'.y))
            => /\ ~call'.err
               /\ ShowBuffer(TheDevice') =
                      [ShowBuffer(TheDevice) EXCEPT ![call'.x][call'.y] = call'.c]
       /\ (call.op = "set" /\ InSize(TheDevice, call.x, call.y) /\ call'.op = "show")
            => /\ DeviceObj_get(TheDevice', call.x, call.y) = call.c
               /\ \A i \in 0..(TheDevice.sizeX - 1), j \in 0..(TheDevice.sizeY - 1) :
                      DeviceObj_get(TheDevice', i, j) = ShowBuffer(TheDevice)[i][j]
      ]_vars

\* a get that follows a show returns a colour that was set, next to a cell
\* that was left black
C4_Witness ==
    /\ call.op = "get" /\ call.prevOp = "show" /\ ~call.err
    /\ InSize(TheDevice, call.x, call.y)
    /\ call.ret = Red
    /\ \E i \in 0..(TheDevice.sizeX - 1), j \in 0..(TheDevice.sizeY - 1) :
           DeviceObj_get(TheDevice, i, j) = Black

\* C5: a set or get with a coordinate outside the declared size, negative
\* ones included, fails and leaves both grids of the device unchanged.
C5_OutOfRangeFails ==
    [][(call'.op \in {"set", "get"} /\ ~InSize(TheDevice, call'.x, call'.y))
           => (call'.err /\ devices' = devices)]_vars

\* C6: a show that directly follows a show raises nothing and leaves the
\* visible grid as the first show made it.
C6_ShowIdempotent ==
    [][(call.op = "show" /\ call'.op = "show")
           => (~call'.err /\ Lights(TheDevice') = Lights(TheDevice))]_vars

\* two shows in a row on a device whose visible grid is not blank
C6_Witness ==
    /\ call.op = "show" /\ call.prevOp = "show"
    /\ \E i \in 0..(TheDevice.sizeX - 1), j \in 0..(TheDevice.sizeY - 1) :
           DeviceObj_get(TheDevice, i, j) = Red

----------------------------------------------------------------------------
(* SpecRegistry: devices are constructed (DeviceObj.__init__ calls          *)
(* manager.add_device) and add_location is called, in any order and with   *)
(* any name, also one that is registered already or not at all.            *)

InitRegistry == InitPipeline(EmptyRegistry)

Reg_add_device(name, shape) ==
    /\ Len(layout) < MaxLayout
    /\ LET reg == add_device(devices, layout,
                             DeviceObj_init(name, shape[1], shape[2]))
       IN  /\ devices' = reg.devices
           /\ layout' = reg.layout
    /\ call' = Called(NoCall, "add_device", name, Black, 0, 0, FALSE, Black)
    /\ UNCHANGED <<pipelineVars, lockVars>>

Reg_add_location(name, x, y) ==
    /\ Len(layout) < MaxLayout
    /\ IF KeyError(devices, name)
       THEN /\ call' = Called(NoCall, "add_location", name, Black, 0, 0, TRUE, Black)
            /\ UNCHANGED layout
       ELSE /\ call' = Called(NoCall, "add_location", name, Black, 0, 0, FALSE, Black)
            /\ layout' = add_location(devices, layout, name, x, y)
    /\ UNCHANGED <<devices, pipelineVars, lockVars>>

NextRegistry ==
    \/ \E name \in Names, shape \in Shapes : Reg_add_device(name, shape)
    \/ \E name \in Names, x \in Origins, y \in Origins : Reg_add_location(name, x, y)

SpecRegistry == InitRegistry /\ [][NextRegistry]_vars

\* the largest member of a non-empty set of integers
MaxOf(S) == CHOOSE m \in S : \A n \in S : n <= m

\* C7: registering a device under a name the registry holds already fails,
\* and the name map and the layout stay as they were.
C7_DuplicateNameFails ==
    [][(call'.op = "add_device" /\ call'.name \in DOMAIN devices)
           => (call'.err /\ devices' = devices /\ layout' = layout)]_vars

\* C8: get_layout_size is (0, 0) on an empty layout and otherwise the largest
\* x + w and the largest y + h over the positions of the layout.
C8_LayoutSize ==
    get_layout_size(layout) =
        IF Len(layout) = 0 THEN <<0, 0>>
        ELSE <<MaxOf({layout[k].x + layout[k].w : k \in 1..Len(layout)}),
               MaxOf({layout[k].y + layout[k].h : k \in 1..Len(layout)})>>

\* three positions: the last one, away from the origin, reaches furthest in
\* x, and the first one reaches furthest in y
C8_Witness ==
    /\ Len(layout) = 3
    /\ layout[3].x > 0
    /\ layout[3].x + layout[3].w > layout[1].x + layout[1].w
    /\ layout[1].y + layout[1].h > layout[3].y + layout[3].h
    /\ get_layout_size(layout) = <<layout[3].x + layout[3].w, layout[1].y + layout[1].h>>

\* C17: after every sequence of add_device and add_location calls, failed ones
\* included, each position of the layout names a device of the name map and
\* carries that device's reported width and height.
C17_PlacementsMatchDevices ==
    \A k \in 1..Len(layout) :
        /\ ~KeyError(devices, layout[k].name)
        /\ <<layout[k].w, layout[k].h>> = get_device_size(devices, layout[k].name)

----------------------------------------------------------------------------
(* SpecLocks: threads that call add_device, add_location and               *)
(* get_device_size on one DeviceManager at the same time, one lock          *)
(* operation or one locked body per step. The calls differ in the device    *)
(* name only; every device is 1 x 1 and every origin (0, 0).                *)

\* leaving a with block releases its lock
ExitLock(holder) == "free"

\* an add_device that calls add_location inside its with block
AddDeviceKeepsLock(holder) == holder

\* add_device leaves its with block before it calls add_location
AddDeviceExit(holder) == ExitLock(holder)

InitLocks == InitPipeline(EmptyRegistry)

\* the threads inside add_device or add_location
Adding == {t \in Threads : threads[t].op \in {"add_device", "add_location"}}

Enter(t, op, pc, name) ==
    /\ threads[t].pc = "idle"
    /\ threads' = [threads EXCEPT ![t] = [Idle EXCEPT !.pc = pc, !.op = op,
                                                     !.name = name]]
    /\ UNCHANGED <<devices, layout, devicesLock, layoutLock, call, pipelineVars>>

Call_add_device(t, name) ==
    /\ Len(layout) + Cardinality(Adding) < MaxLayout
    /\ Enter(t, "add_device", "ad_lock", name)

Call_add_location(t, name) ==
    /\ Len(layout) + Cardinality(Adding) < MaxLayout
    /\ Enter(t, "add_location", "al_lock", name)

Call_get_device_size(t, name) == Enter(t, "get_device_size", "gs_lock", name)

\* add_device: with self._devicesLock
AD_Lock(t) ==
    /\ threads[t].pc = "ad_lock"
    /\ devicesLock = "free"
    /\ devicesLock' = t
    /\ threads' = [threads EXCEPT ![t].pc = "ad_store"]
    /\ UNCHANGED <<devices, layout, layoutLock, call, pipelineVars>>

\* add_device: self.devices[d.name] = d, the with block is left and
\* add_location(d.name, 0, 0) is called
AD_Store(t) ==
    /\ threads[t].pc = "ad_store"
    /\ devices' = StoreDevice(devices, DeviceObj_init(threads[t].name, 1, 1))
    /\ devicesLock' = AddDeviceExit(devicesLock)
    /\ threads' = [threads EXCEPT ![t].pc = "al_lock"]
    /\ UNCHANGED <<layout, layoutLock, call, pipelineVars>>

\* add_location: with self._layoutLock, and get_device_size(name) is called
AL_Lock(t) ==
    /\ threads[t].pc = "al_lock"
    /\ layoutLock = "free"
    /\ layoutLock' = t
    /\ threads' = [threads EXCEPT ![t].pc = "gs_lock"]
    /\ UNCHANGED <<devices, layout, devicesLock, call, pipelineVars>>

\* get_device_size: with self._devicesLock
GS_Lock(t) ==
    /\ threads[t].pc = "gs_lock"
    /\ devicesLock = "free"
    /\ devicesLock' = t
    /\ threads' = [threads EXCEPT ![t].pc = "gs_read"]
    /\ UNCHANGED <<devices, layout, layoutLock, call, pipelineVars>>

\* get_device_size: return self.devices[name].get_size(), or KeyError; the
\* with block is left either way, and the call returns to its caller
GS_Read(t) ==
    /\ threads[t].pc = "gs_read"
    /\ devicesLock' = ExitLock(devicesLock)
    /\ IF KeyError(devices, threads[t].name)
       THEN threads' = [threads EXCEPT ![t] =
                IF threads[t].op = "get_device_size" THEN Idle
                ELSE [threads[t] EXCEPT !.pc = "al_raise"]]
       ELSE threads' = [threads EXCEPT ![t] =
                IF threads[t].op = "get_device_size" THEN Idle
                ELSE [threads[t] EXCEPT !.pc = "al_append",
                          !.size = get_device_size(devices, threads[t].name)]]
    /\ UNCHANGED <<devices, layout, layoutLock, call, pipelineVars>>

\* add_location: self._currentLayout.append(DevicePosition(name, x, y, w, h))
\* and the with block is left
AL_Append(t) ==
    /\ threads[t].pc = "al_append"
    /\ layout' = Append(layout, DevicePosition(threads[t].name, threads[t].x,
                             threads[t].y, threads[t].size[1], threads[t].size[2]))
    /\ layoutLock' = ExitLock(layoutLock)
    /\ threads' = [threads EXCEPT ![t] = Idle]
    /\ UNCHANGED <<devices, devicesLock, call, pipelineVars>>

\* add_location: the KeyError of get_device_size leaves the with block
AL_Raise(t) ==
    /\ threads[t].pc = "al_raise"
    /\ layoutLock' = ExitLock(layoutLock)
    /\ threads' = [threads EXCEPT ![t] = Idle]
    /\ UNCHANGED <<devices, layout, devicesLock, call, pipelineVars>>

\* the steps of thread t that wait for a lock, and its other steps
Acquire(t) == AD_Lock(t) \/ AL_Lock(t) \/ GS_Lock(t)
Proceed(t) == AD_Store(t) \/ GS_Read(t) \/ AL_Append(t) \/ AL_Raise(t)

NextLocks ==
    \/ \E t \in Threads, name \in Names : Call_add_device(t, name)
    \/ \E t \in Threads, name \in Names : Call_add_location(t, name)
    \/ \E t \in Threads, name \in Names : Call_get_device_size(t, name)
    \/ \E t \in Threads : AD_Lock(t)
    \/ \E t \in Threads : AD_Store(t)
    \/ \E t \in Threads : AL_Lock(t)
    \/ \E t \in Threads : GS_Lock(t)
    \/ \E t \in Threads : GS_Read(t)
    \/ \E t \in Threads : AL_Append(t)
    \/ \E t \in Threads : AL_Raise(t)

\* fair scheduling: a thread that can proceed does, and a thread waiting for
\* a lock that is free again and again gets it
SpecLocks ==
    /\ InitLocks
    /\ [][NextLocks]_vars
    /\ \A t \in Threads : WF_vars(Proceed(t)) /\ SF_vars(Acquire(t))

----------------------------------------------------------------------------
(* SpecConfig: the setters of one RunningConfig, called in any order with  *)
(* any value.                                                               *)

Modes == {"cross", "off", "chase"}
Sources == {"timer", "manual", "button"}
TimerLengths == {1, 5, 10, 20}

\* the record of a setter call: arg is a string argument, len a number
ConfigCall(prev, op, arg, len) ==
    [op |-> op, prevOp |-> prev.op, arg |-> arg, len |-> len]

configVars == <<devices, layout, cf, nf, nfLock, bang, fm_pc, fm_frame, lw_pc,
                lw_current, lw_next, sets, shown, promoted, raisesPending,
                servedRaises, lastInstalled, raisedInCycle, lockVars>>

InitConfig == InitPipeline(EmptyRegistry)

RC_set_mode(m) ==
    /\ rc' = set_mode(rc, m)
    /\ call' = ConfigCall(call, "set_mode", m, 0)
    /\ UNCHANGED configVars

RC_set_trigger_source(s) ==
    /\ rc' = set_trigger_source(rc, s)
    /\ call' = ConfigCall(call, "set_trigger_source", s, 0)
    /\ UNCHANGED configVars

RC_set_trigger_timer_length(l) ==
    /\ rc' = set_trigger_timer_length(rc, l)
    /\ call' = ConfigCall(call, "set_trigger_timer_length", "", l)
    /\ UNCHANGED configVars

NextConfig ==
    \/ \E m \in Modes : RC_set_mode(m)
    \/ \E s \in Sources : RC_set_trigger_source(s)
    \/ \E l \in TimerLengths : RC_set_trigger_timer_length(l)

SpecConfig == InitConfig /\ [][NextConfig]_vars

\* C19: each setter of RunningConfig changes its own field to its argument
\* and leaves the two other fields as they were.
C19_SettersChangeOwnField ==
    [][/\ call'.op = "set_mode"
            => /\ get_mode(rc') = call'.arg
               /\ get_trigger_source(rc') = get_trigger_source(rc)
               /\ get_trigger_timer_length(rc') = get_trigger_timer_length(rc)
       /\ call'.op = "set_trigger_source"
            => /\ get_trigger_source(rc') = call'.arg
               /\ get_mode(rc') = get_mode(rc)
               /\ get_trigger_timer_length(rc') = get_trigger_timer_length(rc)
       /\ call'.op = "set_trigger_timer_length"
            => /\ get_trigger_timer_length(rc') = call'.len
               /\ get_mode(rc') = get_mode(rc)
               /\ get_trigger_source(rc') = get_trigger_source(rc)]_vars

----------------------------------------------------------------------------
(* Spec: the three threads over the registry of a devices file.            *)

\* threading.Event
Event_set(flag) == TRUE
\* a clear that leaves the flag as it is
EventClearKeeps(flag) == flag
Event_clear(flag) == FALSE

\* saturating history counter
Count(n, max) == IF n < max THEN n + 1 ELSE max

\* thread_trigger: rc.get_trigger_source() is "timer", sleep, bng.set().
\* CPython interns both string constants, so the identity test holds exactly
\* when the values are equal.
Trigger_set ==
    /\ get_trigger_source(rc) = "timer"
    /\ bang' = Event_set(bang)
    /\ raisesPending' = IF fm_pc = "wait" THEN Count(raisesPending, MaxRaises)
                                          ELSE raisesPending
    /\ UNCHANGED <<devices, layout, cf, nf, nfLock, rc, fm_pc, fm_frame, lw_pc,
                   lw_current, lw_next, call, sets, shown, promoted,
                   servedRaises, lastInstalled>>
    /\ raisedInCycle' = (fm_pc = "clear" \/ raisedInCycle)
    /\ UNCHANGED lockVars

\* thread_frame_maker: bng.wait() returns, the layout size and the mode are
\* read and, in mode "cross", the program computes the next frame
FM_Wait ==
    /\ fm_pc = "wait"
    /\ bang
    /\ LET size == get_layout_size(layout)
       IN  IF get_mode(rc) = "cross"
           THEN /\ fm_frame' \in get_next_frame(size[1], size[2])
                /\ fm_pc' = "lock"
           ELSE /\ fm_pc' = "clear"
                /\ UNCHANGED fm_frame
    /\ servedRaises' = raisesPending
    /\ raisesPending' = 0
    /\ UNCHANGED <<devices, layout, cf, nf, nfLock, bang, rc, lw_pc, lw_current,
                   lw_next, call, sets, shown, promoted, lastInstalled>>
    /\ UNCHANGED <<raisedInCycle, lockVars>>

\* nf.set(frame): with self._bufferLock
FM_Lock ==
    /\ fm_pc = "lock"
    /\ nfLock = "free"
    /\ nfLock' = "FrameMaker"
    /\ fm_pc' = "assign"
    /\ UNCHANGED <<devices, layout, cf, nf, bang, rc, fm_frame, lw_pc, lw_current,
                   lw_next, call, sets, shown, promoted, raisesPending, servedRaises, lastInstalled>>
    /\ UNCHANGED <<raisedInCycle, lockVars>>

\* nf.set(frame): self._buffer = b, and the lock is released
FM_Assign ==
    /\ fm_pc = "assign"
    /\ nf' = FrameBuffer_set(nf, fm_frame)
    /\ nfLock' = "free"
    /\ lastInstalled' = fm_frame
    /\ fm_frame' = <<>>
    /\ fm_pc' = "clear"
    /\ UNCHANGED <<devices, layout, cf, bang, rc, lw_pc, lw_current,
                   lw_next, call, sets, shown, promoted, raisesPending, servedRaises>>
    /\ UNCHANGED <<raisedInCycle, lockVars>>

\* bng.clear()
FM_Clear ==
    /\ fm_pc = "clear"
    /\ bang' = Event_clear(bang)
    /\ servedRaises' = 0
    /\ fm_pc' = "wait"
    /\ UNCHANGED <<devices, layout, cf, nf, nfLock, rc, fm_frame, lw_pc,
                   lw_current, lw_next, call, sets, shown, promoted,
                   raisesPending, lastInstalled>>
    /\ raisedInCycle' = FALSE
    /\ UNCHANGED lockVars

----------------------------------------------------------------------------
(* thread_light_write *)

FramesDiffer(current_frame, next_frame) == current_frame # next_frame

\* a comparison that takes every pixel as changed
PixelAlways(current_frame, next_frame, x, y) == TRUE

PixelDiffers(current_frame, next_frame, x, y) ==
    current_frame[x][y] # next_frame[x][y]

\* the device a differing pixel is sent to, and the coordinates passed to it
lw_device == "test"
lw_coords(x, y) == <<x, y>>

\* the record of a device set call made for canvas pixel (cx, cy)
SetCall(name, c, x, y, cx, cy, raised) ==
    [name |-> name, c |-> c, x |-> x, y |-> y, cx |-> cx, cy |-> cy,
     raised |-> raised]

RECURSIVE Scan(_, _, _, _, _)
\* the two nested for loops from pixel number k on (x outer, y inner): the
\* devices and the calls made when the loops end or an exception leaves them
Scan(k, devs, log, current_frame, next_frame) ==
    LET size_x == GridW(next_frame)
        size_y == GridH(next_frame)
        x == k \div size_y
        y == k % size_y
        c == next_frame[x][y]
        at == lw_coords(x, y)
    IN  IF k >= size_x * size_y
        THEN [devices |-> devs, sets |-> log, raised |-> FALSE]
        ELSE IF ~PixelDiffers(current_frame, next_frame, x, y)
        THEN Scan(k + 1, devs, log, current_frame, next_frame)
        ELSE IF KeyError(devs, lw_device)
        THEN [devices |-> devs, sets |-> log, raised |-> TRUE]
        ELSE IF DeviceObj_raises(devs[lw_device], at[1], at[2])
        THEN [devices |-> devs, raised |-> TRUE,
              sets |-> Append(log, SetCall(lw_device, c, at[1], at[2], x, y, TRUE))]
        ELSE Scan(k + 1,
                  [devs EXCEPT ![lw_device] =
                       DeviceObj_set(@, c[1], c[2], c[3], at[1], at[2])],
                  Append(log, SetCall(lw_device, c, at[1], at[2], x, y, FALSE)),
                  current_frame, next_frame)

\* current_frame = cf.get(); only this thread ever takes cf's lock
LW_GetCurrent ==
    /\ lw_pc = "get_current"
    /\ lw_current' = FrameBuffer_get(cf)
    /\ sets' = <<>>
    /\ shown' = {}
    /\ promoted' = FALSE
    /\ lw_pc' = "lock_next"
    /\ UNCHANGED <<devices, layout, cf, nf, nfLock, bang, rc, fm_pc, fm_frame,
                   lw_next, call, raisesPending, servedRaises,
                   lastInstalled>>
    /\ UNCHANGED <<raisedInCycle, lockVars>>

\* next_frame = nf.get(): with self._bufferLock
LW_LockNext ==
    /\ lw_pc = "lock_next"
    /\ nfLock = "free"
    /\ nfLock' = "LightWrite"
    /\ lw_pc' = "get_next"
    /\ UNCHANGED <<devices, layout, cf, nf, bang, rc, fm_pc, fm_frame, lw_current,
                   lw_next, call, sets, shown, promoted, raisesPending, servedRaises, lastInstalled>>
    /\ UNCHANGED <<raisedInCycle, lockVars>>

\* next_frame = nf.get(): return self._buffer, and the lock is released
LW_GetNext ==
    /\ lw_pc = "get_next"
    /\ lw_next' = FrameBuffer_get(nf)
    /\ nfLock' = "free"
    /\ lw_pc' = "dispatch"
    /\ UNCHANGED <<devices, layout, cf, nf, bang, rc, fm_pc, fm_frame, lw_current,
                   call, sets, shown, promoted, raisesPending,
                   servedRaises, lastInstalled>>
    /\ UNCHANGED <<raisedInCycle, lockVars>>

\* if current_frame != next_frame: the loops over the pixels
LW_Dispatch ==
    /\ lw_pc = "dispatch"
    /\ IF FramesDiffer(lw_current, lw_next)
       THEN LET done == Scan(0, devices, <<>>, lw_current, lw_next)
            IN  /\ devices' = done.devices
                /\ sets' = done.sets
                /\ lw_pc' = IF done.raised THEN "crashed" ELSE "show"
       ELSE /\ lw_pc' = "get_current"
            /\ UNCHANGED <<devices, sets>>
    /\ UNCHANGED <<layout, cf, nf, nfLock, bang, rc, fm_pc, fm_frame, lw_current,
                   lw_next, call, shown, promoted, raisesPending, servedRaises, lastInstalled>>
    /\ UNCHANGED <<raisedInCycle, lockVars>>

\* dm.devices["test"].show()
LW_Show ==
    /\ lw_pc = "show"
    /\ IF KeyError(devices, lw_device)
       THEN /\ lw_pc' = "crashed"
            /\ UNCHANGED <<devices, shown>>
       ELSE /\ devices' = [devices EXCEPT ![lw_device] = DeviceObj_show(@)]
            /\ shown' = shown \cup {lw_device}
            /\ lw_pc' = "promote"
    /\ UNCHANGED <<layout, cf, nf, nfLock, bang, rc, fm_pc, fm_frame, lw_current,
                   lw_next, call, sets, promoted, raisesPending, servedRaises, lastInstalled>>
    /\ UNCHANGED <<raisedInCycle, lockVars>>

\* cf.set(next_frame)
LW_Promote ==
    /\ lw_pc = "promote"
    /\ cf' = FrameBuffer_set(cf, lw_next)
    /\ promoted' = TRUE
    /\ lw_pc' = "get_current"
    /\ UNCHANGED <<devices, layout, nf, nfLock, bang, rc, fm_pc, fm_frame,
                   lw_current, lw_next, call, sets, shown, raisesPending, servedRaises, lastInstalled>>
    /\ UNCHANGED <<raisedInCycle, lockVars>>

Init == \E config \in Configs : InitPipeline(BuildRegistry(config, 1, EmptyRegistry))

Next ==
    \/ Trigger_set
    \/ FM_Wait
    \/ FM_Lock
    \/ FM_Assign
    \/ FM_Clear
    \/ LW_GetCurrent
    \/ LW_LockNext
    \/ LW_GetNext
    \/ LW_Dispatch
    \/ LW_Show
    \/ LW_Promote

Spec == Init /\ [][Next]_vars

\* the steps of thread_light_write
LightWrite ==
    \/ LW_GetCurrent
    \/ LW_LockNext
    \/ LW_GetNext
    \/ LW_Dispatch
    \/ LW_Show
    \/ LW_Promote

\* the threads with LightWrite scheduled fairly: it takes a step whenever it
\* can take one from some point on
SpecFair == Spec /\ WF_vars(LightWrite)

\* the set calls of the cycle that reached device name with colour c at the
\* device coordinates at, without raising
Received(name, c, at) ==
    {i \in 1..Len(sets) :
        /\ sets[i].name = name /\ sets[i].c = c /\ ~sets[i].raised
        /\ <<sets[i].x, sets[i].y>> = at}

CanvasX == 0..(GridW(lw_next) - 1)
CanvasY == IF GridW(lw_next) = 0 THEN {} ELSE 0..(GridH(lw_next) - 1)

\* C1: once a cycle that found current != next has left the loops over the
\* pixels, every position of the layout that contains a pixel whose colour
\* differs has had its device receive exactly one set of the new colour at the
\* translated coordinates.
C1_EveryCoveringDeviceIsSet ==
    (lw_pc \in {"show", "promote"} /\ lw_current # lw_next)
        => \A x \in CanvasX, y \in CanvasY, k \in 1..Len(layout) :
               (lw_current[x][y] # lw_next[x][y] /\ is_inside(layout[k], x, y))
                   => Cardinality(Received(layout[k].name, lw_next[x][y],
                                           translate(layout[k], x, y))) = 1

\* C2: every set call of a cycle is for a canvas pixel whose colour differs
\* between the two frames the cycle read, and a cycle that read two equal
\* frames calls no device set, no device show and no cf.set.
C2_OnlyChangedPixels ==
    /\ \A i \in 1..Len(sets) :
           lw_current[sets[i].cx][sets[i].cy] # lw_next[sets[i].cx][sets[i].cy]
    /\ (lw_pc \in {"dispatch", "show", "promote", "get_current", "crashed"}
            /\ lw_current = lw_next)
           => (sets = <<>> /\ shown = {} /\ ~promoted)

\* a cycle on a canvas of two pixels or more that set one pixel, left another
\* alone and went on to show
C2_Witness ==
    /\ lw_pc = "promote"
    /\ Len(sets) = 1
    /\ shown = {lw_device}
    /\ \E x \in CanvasX, y \in CanvasY : lw_current[x][y] = lw_next[x][y]

\* C9: FrameMaker starts a generation cycle only for a signal raised while it
\* was waiting, and one cycle takes all the raises made during that wait: two
\* or more raises before it wakes give one cycle, and the next cycle needs a
\* new raise.
C9_RaisesCoalesce ==
    [][(fm_pc = "wait" /\ fm_pc' # "wait")
           => raisesPending >= 1]_vars

\* a generation cycle that took two raises has installed its frame and is
\* about to clear the signal
C9_Witness ==
    /\ fm_pc = "clear"
    /\ servedRaises >= 2
    /\ raisesPending = 0
    /\ nf = lastInstalled

\* C10: the grid that LightWrite's nf.get() returns is, whole, the argument
\* of the last nf.set that completed before it (the initial grid if there is
\* none), under every interleaving with FrameMaker.
C10_GetReturnsLastInstalled ==
    [][(lw_pc = "get_next" /\ lw_pc' = "dispatch") => lw_next' = lastInstalled]_vars

\* LightWrite has read an installed frame that differs from the initial one
\* in one pixel only, while FrameMaker is about to install another frame
C10_Witness ==
    /\ lw_pc = "dispatch"
    /\ lw_next = lastInstalled
    /\ \E x \in CanvasX, y \in CanvasY :
           /\ lw_next[x][y] = Red
           /\ \E x2 \in CanvasX, y2 \in CanvasY : lw_next[x2][y2] = Black
    /\ fm_pc = "lock"
    /\ fm_frame # lw_next

\* C11: a raise made after FrameMaker has woken and before it clears the
\* signal is not lost: when the clear has been done the signal is still
\* raised (no generation cycle can have started since that raise, for the
\* clear is the last step of the cycle the raise fell in).
C11_NoLostTrigger ==
    [][(fm_pc = "clear" /\ fm_pc' = "wait" /\ raisedInCycle) => bang']_vars

\* C12: in a cycle that found a difference no set follows a show, show has
\* been invoked on every registered device when the cycle promotes, and the
\* promotion comes after the shows.
C12_SetsThenShowAllThenPromote ==
    /\ shown # {} => lw_pc \in {"promote", "get_current"}
    /\ (lw_pc = "promote" \/ promoted) => shown = DOMAIN devices
    /\ promoted => lw_pc = "get_current"

\* width and height of a grid, 0 x 0 for the empty list
FrameSize(grid) == IF GridW(grid) = 0 THEN <<0, 0>> ELSE <<GridW(grid), GridH(grid)>>

\* C13: a generation cycle reaches bang.clear() only through one nf.set, the
\* frame it installs has the width and height of the canvas, nf changes in no
\* other step, the signal is cleared only by the step after the install, and
\* no step of FrameMaker changes cf or a device.
C13_OneInstallPerCycle ==
    [][/\ (fm_pc' = "clear" /\ fm_pc # "clear")
            => /\ fm_pc = "assign"
               /\ nf' = fm_frame
               /\ FrameSize(nf') = get_layout_size(layout)
       /\ nf' # nf => (fm_pc = "assign" /\ fm_pc' = "clear")
       /\ (bang /\ ~bang') => (fm_pc = "clear" /\ nf = lastInstalled)
       /\ fm_pc' # fm_pc => (cf' = cf /\ devices' = devices)]_vars

\* FrameMaker has installed a frame of 2 x 2 with a red pixel on the canvas of
\* 2 x 2 and is about to clear the signal, while cf is still the black frame
C13_Witness ==
    /\ fm_pc = "clear"
    /\ bang
    /\ get_layout_size(layout) = <<2, 2>>
    /\ FrameSize(nf) = <<2, 2>>
    /\ nf = lastInstalled
    /\ \E x \in 0..1, y \in 0..1 : nf[x][y] = Red
    /\ cf # nf

\* C14: if from some point on FrameMaker waits with the signal down, and so
\* installs no further frame, then from some point on cf equals nf.
C14_Converges ==
    <>[](fm_pc = "wait" /\ ~bang) => <>[](cf = nf)

\* C15: every set call of LightWrite is for a pixel inside a position of the
\* device it is sent to, carries that position's translated coordinates, and
\* these lie inside the device's size, so that the call does not raise.
C15_SetWithinDeviceSize ==
    \A i \in 1..Len(sets) :
        /\ ~sets[i].raised
        /\ InSize(devices[sets[i].name], sets[i].x, sets[i].y)
        /\ \E k \in 1..Len(layout) :
               /\ layout[k].name = sets[i].name
               /\ is_inside(layout[k], sets[i].cx, sets[i].cy)
               /\ translate(layout[k], sets[i].cx, sets[i].cy)
                      = <<sets[i].x, sets[i].y>>

\* no position of the layout contains canvas pixel (x, y)
Uncovered(x, y) == \A k \in 1..Len(layout) : ~is_inside(layout[k], x, y)

\* C16: a cycle whose changed pixels are all covered by no position drops
\* them: it raises no error, calls set on no device and goes on to promote.
C16_UncoveredPixelDropped ==
    (/\ lw_pc \in {"show", "promote", "crashed"}
     /\ lw_current # lw_next
     /\ \A x \in CanvasX, y \in CanvasY :
            lw_current[x][y] # lw_next[x][y] => Uncovered(x, y))
        => (lw_pc # "crashed" /\ sets = <<>>)

\* C18: between two cycles of LightWrite every device shows, at every pixel
\* of each of its positions, the colour cf has at that canvas pixel, and the
\* frame a cycle promoted is the snapshot of nf that the cycle compared.
C18_DevicesShowCf ==
    lw_pc = "get_current"
        => /\ \A k \in 1..Len(layout) :
                  \A x \in 0..(get_layout_size(layout)[1] - 1),
                     y \in 0..(get_layout_size(layout)[2] - 1) :
                      is_inside(layout[k], x, y)
                          => LET at == translate(layout[k], x, y)
                             IN  DeviceObj_get(devices[layout[k].name], at[1], at[2])
                                     = cf[x][y]
           /\ promoted => cf = lw_next

====
